---- MODULE Spec2Model ----
(***************************************************************************)
(* Model of build.py, the build-and-measurement orchestrator of            *)
(* ms-ringbuffer.  One behaviour is a sequence of invocations of the       *)
(* script on the same build directory.  Every external tool (cmake, ctest, *)
(* the size probe, the benchmark binary) is a black box: it is launched,   *)
(* it returns an exit code chosen from ExitCodes, and it may or may not    *)
(* write the files it is expected to write.                                *)
(*                                                                         *)
(* Environment assumptions (external to build.py): every executable the    *)
(* script launches can be started, the host is POSIX (no ".exe" suffix),   *)
(* and build/bench exists once the directory has been configured.          *)
(***************************************************************************)
EXTENDS Integers, Sequences, FiniteSets, TLC

VARIABLES
    args,       \* argparse namespace of the current invocation
    pc,         \* position of the interpreter in main() and its callees
    caller,     \* who called size_report()/run_bench(): "main" or "collect_metrics"
    exitCode,   \* exit status of the current invocation, Running until it ends
    children,   \* launched child processes that have not yet exited
    log,        \* what the current invocation has done so far, in order
    fs,         \* the build directory on disk
    inv         \* number of the current invocation

vars == <<args, pc, caller, exitCode, children, log, fs, inv>>

(***************************************************************************)
(* Bounds of the model.                                                    *)
(***************************************************************************)
MaxInvocations == 2
MaxChildCode == 2

ExitCodes == 0..MaxChildCode
Running == 0 - 1

(***************************************************************************)
(* Paths and command-line values.                                          *)
(***************************************************************************)
BUILD_DIR == "build"
SizeExe == BUILD_DIR \o "/bench/ms_ringbuffer_size"
BenchExe == BUILD_DIR \o "/bench/ms_ringbuffer_bench"
SizeofPath == BUILD_DIR \o "/bench/sizeof_report.txt"
ReportPath == BUILD_DIR \o "/bench/size_report.txt"
MapPath == BUILD_DIR \o "/bench/ms_ringbuffer_size.map"
ResultsPath == BUILD_DIR \o "/bench/results.json"

None == "<None>"
Truthy(s) == s # None /\ s # ""

BenchTimeDefault == "0.05s"
BenchRepsDefault == 1
BenchParams == {<<BenchTimeDefault, BenchRepsDefault>>, <<"1s", 3>>}
BenchOuts == {"", "out.json"}

Flags ==
    [clean : BOOLEAN, test : BOOLEAN, examples : BOOLEAN, benchmarks : BOOLEAN,
     run_size : BOOLEAN, size_report : BOOLEAN, run_bench : BOOLEAN,
     collect_metrics : BOOLEAN]

ParseArgs ==
    { [clean |-> f.clean, test |-> f.test, examples |-> f.examples,
       benchmarks |-> f.benchmarks, run_size |-> f.run_size,
       size_report |-> f.size_report, run_bench |-> f.run_bench,
       collect_metrics |-> f.collect_metrics,
       bench_time |-> p[1], bench_reps |-> p[2], bench_out |-> o] :
         f \in Flags, p \in BenchParams, o \in BenchOuts }

(***************************************************************************)
(* The build directory.  A file is "absent", "stale" (left by an earlier   *)
(* invocation) or "fresh" (written by the current one).  cfg is the pair   *)
(* of toggles stored by the last generator run, NoCfg when there is none.  *)
(* sizeof_report.txt can also be "empty": created or truncated by the      *)
(* current invocation and nothing written to it since.                     *)
(***************************************************************************)
NoCfg == <<>>
EmptyFS ==
    [dir |-> FALSE, cfg |-> NoCfg, sizeof |-> "absent", report |-> "absent",
     map |-> "absent", results |-> "absent"]

Age(f) == IF f \in {"fresh", "empty"} THEN "stale" ELSE f
AgeFS(d) ==
    [dir |-> d.dir, cfg |-> d.cfg, sizeof |-> Age(d.sizeof),
     report |-> Age(d.report), map |-> Age(d.map), results |-> Age(d.results)]

(***************************************************************************)
(* Log entries.                                                            *)
(***************************************************************************)
Ev(e, c, o, r) == [ev |-> e, cmd |-> c, out |-> o, rc |-> r]
Launched(c, o) == Ev("run", c, o, Running)
Exited(ch, r) == Ev("exit", ch.cmd, ch.out, r)
Printed(lines) == Ev("print", lines, "terminal", Running)

(***************************************************************************)
(* Command lines, built as the functions of build.py build them.           *)
(***************************************************************************)
ConfigureCmdOnlyOn(examples, benchmarks) ==
    <<"cmake", "-B", BUILD_DIR, "-DCMAKE_BUILD_TYPE=Release">>
    \o (IF examples THEN <<"-DMS_RINGBUFFER_BUILD_EXAMPLES=ON">> ELSE <<>>)
    \o (IF benchmarks THEN <<"-DMS_RINGBUFFER_BUILD_BENCHMARKS=ON">> ELSE <<>>)
ConfigureCmd(examples, benchmarks) ==
    <<"cmake", "-B", BUILD_DIR, "-DCMAKE_BUILD_TYPE=Release">>
    \o (IF examples THEN <<"-DMS_RINGBUFFER_BUILD_EXAMPLES=ON">>
                    ELSE <<"-DMS_RINGBUFFER_BUILD_EXAMPLES=OFF">>)
    \o (IF benchmarks THEN <<"-DMS_RINGBUFFER_BUILD_BENCHMARKS=ON">>
                      ELSE <<"-DMS_RINGBUFFER_BUILD_BENCHMARKS=OFF">>)

BuildCmd == <<"cmake", "--build", BUILD_DIR, "-j<cpu_count>">>

TestCmd == <<"ctest", "--test-dir", BUILD_DIR, "--output-on-failure">>

RunSizeCmd == <<SizeExe>>

SizeReportCmd == <<"cmake", "--build", BUILD_DIR, "--target", "ms_ringbuffer_size_report">>

BenchCmd(bench_time_s, repetitions, out_json) ==
    <<BenchExe,
      "--benchmark_min_time=" \o bench_time_s,
      "--benchmark_repetitions=" \o ToString(repetitions)>>
    \o (IF Truthy(out_json)
          THEN <<"--benchmark_format=json",
                 "--benchmark_out=" \o out_json,
                 "--benchmark_out_format=json">>
          ELSE <<>>)

BenchStdoutInherited(out_json) == "inherit"
BenchStdout(out_json) == IF Truthy(out_json) THEN "devnull" ELSE "inherit"

OutJson(a) == IF a.bench_out # "" THEN a.bench_out ELSE None

ManifestWithoutMap == <<"Wrote:", SizeofPath, ReportPath, ResultsPath>>
Manifest == <<"Wrote:", SizeofPath, ReportPath, MapPath, ResultsPath>>

Has(c, s) == \E i \in 1..Len(c) : c[i] = s

(***************************************************************************)
(* run(): launch a child and block; on return exit with its code if it is  *)
(* not zero.  sys.exit ends the invocation.                                *)
(* The ">>> cmd" echo of run() is not logged: the launch record carries    *)
(* the same command.                                                       *)
(***************************************************************************)
SysExit(code, entries) ==
    /\ pc' = "done"
    /\ exitCode' = code
    /\ log' = log \o entries

RunExitCodeAlwaysOne(rc) == 1
RunExitCode(rc) == rc

RunWithoutWaiting(cmd, out, waitpc) ==
    /\ children' = children \cup {Launched(cmd, out)}
    /\ log' = log \o <<Launched(cmd, out)>>
    /\ pc' = CASE waitpc = "configure_wait" -> "build"
              [] waitpc = "build_wait" -> "main_test"
              [] waitpc = "test_wait" -> "main_run_size"
              [] waitpc = "run_size_wait" -> "main_size_report"
              [] waitpc = "size_report_wait" -> "size_report_read"
              [] OTHER -> waitpc
    /\ exitCode' = exitCode
Run(cmd, out, waitpc) ==
    /\ children' = children \cup {Launched(cmd, out)}
    /\ log' = log \o <<Launched(cmd, out)>>
    /\ pc' = waitpc
    /\ exitCode' = exitCode

Returns(ch, rc, nextpc) ==
    /\ children' = children \ {ch}
    /\ IF rc # 0
         THEN SysExit(RunExitCode(rc), <<Exited(ch, rc)>>)
         ELSE /\ pc' = nextpc
              /\ log' = log \o <<Exited(ch, rc)>>
              /\ exitCode' = exitCode

Skip(nextpc) ==
    /\ pc' = nextpc
    /\ UNCHANGED <<exitCode, children, log>>

\* Before the first invocation: nothing is built and no process is running.
\* Between invocations args holds argparse's defaults.
DefaultArgs ==
    [clean |-> FALSE, test |-> FALSE, examples |-> FALSE, benchmarks |-> FALSE,
     run_size |-> FALSE, size_report |-> FALSE, run_bench |-> FALSE,
     collect_metrics |-> FALSE, bench_time |-> BenchTimeDefault,
     bench_reps |-> BenchRepsDefault, bench_out |-> ""]

Init ==
    /\ args = DefaultArgs
    /\ pc = "idle"
    /\ caller = "main"
    /\ exitCode = Running
    /\ children = {}
    /\ log = <<>>
    /\ fs = EmptyFS
    /\ inv = 0

\* The script is started: parse_args(), line 152.
Invoke ==
    /\ pc = "idle"
    /\ inv < MaxInvocations
    /\ inv' = inv + 1
    /\ args' \in ParseArgs
    /\ pc' = "main_clean"
    /\ UNCHANGED <<caller, exitCode, children, log, fs>>

(***************************************************************************)
(* main(), lines 154-155, and clean().                                     *)
(***************************************************************************)
cleanKeepsTree(d) == d
clean(d) == IF d.dir THEN EmptyFS ELSE d

CleanRequested(a) == a.clean

\* Line 157: build() comes before every dependency check.
AfterCleanValidatesFirst == "main_run_size"
AfterClean == "configure"

MainClean ==
    /\ pc = "main_clean"
    /\ IF CleanRequested(args)
         THEN /\ fs' = clean(fs)
              /\ log' = log \o (IF fs.dir THEN <<Ev("rmtree", <<BUILD_DIR>>, "", Running)>>
                                          ELSE <<>>)
         ELSE UNCHANGED <<fs, log>>
    /\ pc' = AfterClean
    /\ UNCHANGED <<args, caller, exitCode, children, inv>>

(***************************************************************************)
(* build(): configure() then the build-all run.                            *)
(***************************************************************************)
Configure ==
    /\ pc = "configure"
    /\ fs' = [fs EXCEPT !.dir = TRUE]
    /\ Run(ConfigureCmd(args.examples, args.benchmarks), "inherit", "configure_wait")
    /\ UNCHANGED <<args, caller, inv>>

\* The generator stores the toggles it was given and keeps the stored value
\* (OFF in a new directory) of a toggle it was not given; a failed generator
\* run may or may not have stored them.
Toggle(cmd, name, k, cfg) ==
    IF Has(cmd, name \o "=ON") THEN TRUE
    ELSE IF Has(cmd, name \o "=OFF") THEN FALSE
    ELSE IF cfg = NoCfg THEN FALSE ELSE cfg[k]

ConfigureReturns ==
    /\ pc = "configure_wait"
    /\ \E ch \in children, rc \in ExitCodes, stored \in BOOLEAN :
         /\ rc = 0 => stored
         /\ Returns(ch, rc, "build")
         /\ fs' = IF stored
                    THEN [fs EXCEPT !.cfg = <<Toggle(ch.cmd, "-DMS_RINGBUFFER_BUILD_EXAMPLES", 1, fs.cfg),
                                              Toggle(ch.cmd, "-DMS_RINGBUFFER_BUILD_BENCHMARKS", 2, fs.cfg)>>]
                    ELSE fs
    /\ UNCHANGED <<args, caller, inv>>

Build ==
    /\ pc = "build"
    /\ Run(BuildCmd, "inherit", "build_wait")
    /\ UNCHANGED <<args, caller, fs, inv>>

BuildReturns ==
    /\ pc = "build_wait"
    /\ \E ch \in children, rc \in ExitCodes : Returns(ch, rc, "main_test")
    /\ UNCHANGED <<args, caller, fs, inv>>

(***************************************************************************)
(* main(), lines 159-160, and test().                                      *)
(***************************************************************************)
AfterTestSkipsRunSize == "main_size_report"
AfterTest == "main_run_size"

MainTest ==
    /\ pc = "main_test"
    /\ IF args.test
         THEN Run(TestCmd, "inherit", "test_wait")
         ELSE Skip(AfterTest)
    /\ UNCHANGED <<args, caller, fs, inv>>

TestReturns ==
    /\ pc = "test_wait"
    /\ \E ch \in children, rc \in ExitCodes : Returns(ch, rc, AfterTest)
    /\ UNCHANGED <<args, caller, fs, inv>>

(***************************************************************************)
(* main(), lines 162-166, and run_size().                                  *)
(***************************************************************************)
\* The guard of lines 163, 169, 175 and 183.
MissingBenchmarksNeverChecked(a) == FALSE
MissingBenchmarks(a) == ~a.benchmarks

UsageError(flag) == SysExit(2, <<Printed(<<"error: " \o flag \o " requires -b/--benchmarks">>)>>)

MainRunSize ==
    /\ pc = "main_run_size"
    /\ IF args.run_size
         THEN IF MissingBenchmarks(args)
                THEN UsageError("--run-size") /\ UNCHANGED children
                ELSE Run(RunSizeCmd, "inherit", "run_size_wait")
         ELSE Skip("main_size_report")
    /\ UNCHANGED <<args, caller, fs, inv>>

RunSizeReturns ==
    /\ pc = "run_size_wait"
    /\ \E ch \in children, rc \in ExitCodes : Returns(ch, rc, "main_size_report")
    /\ UNCHANGED <<args, caller, fs, inv>>

(***************************************************************************)
(* main(), lines 168-172, and size_report().                               *)
(***************************************************************************)
MainSizeReport ==
    /\ pc = "main_size_report"
    /\ IF args.size_report
         THEN IF MissingBenchmarks(args)
                THEN UsageError("--size-report") /\ UNCHANGED <<children, caller>>
                ELSE /\ Run(SizeReportCmd, "inherit", "size_report_wait")
                     /\ caller' = "main"
         ELSE Skip("main_run_bench") /\ UNCHANGED caller
    /\ UNCHANGED <<args, fs, inv>>

\* The size-report target is expected to write size_report.txt and the map
\* file; whether it does is up to the build system.
SizeReportTargetReturns ==
    /\ pc = "size_report_wait"
    /\ \E ch \in children, rc \in ExitCodes, wroteReport \in BOOLEAN, wroteMap \in BOOLEAN :
         /\ Returns(ch, rc, "size_report_read")
         /\ fs' = [fs EXCEPT !.report = IF wroteReport THEN "fresh" ELSE @,
                             !.map = IF wroteMap THEN "fresh" ELSE @]
    /\ UNCHANGED <<args, caller, inv>>

isfileAlwaysTrue(f) == TRUE
isfile(f) == f # "absent"

AfterSizeReport == IF caller = "main" THEN "main_run_bench" ELSE "cm_bench"

SizeReportRead ==
    /\ pc = "size_report_read"
    /\ IF isfile(fs.report)
         THEN /\ log' = log \o <<Printed(<<"--- size_report.txt ---">>),
                                 Ev("read", <<ReportPath>>, fs.report, Running),
                                 Printed(<<ReportPath, fs.report>>)>>
              /\ pc' = AfterSizeReport
              /\ exitCode' = exitCode
         ELSE SysExit(1, <<Printed(<<"error: size report not found at: " \o ReportPath>>)>>)
    /\ UNCHANGED <<args, caller, children, fs, inv>>

(***************************************************************************)
(* main(), lines 174-180, and run_bench().                                 *)
(***************************************************************************)
run_bench(bench_time_s, repetitions, out_json) ==
    Run(BenchCmd(bench_time_s, repetitions, out_json), BenchStdout(out_json), "bench_wait")

MainRunBench ==
    /\ pc = "main_run_bench"
    /\ IF args.run_bench
         THEN IF MissingBenchmarks(args)
                THEN UsageError("--run-bench") /\ UNCHANGED <<children, caller>>
                ELSE /\ run_bench(args.bench_time, args.bench_reps, OutJson(args))
                     /\ caller' = "main"
         ELSE Skip("main_collect") /\ UNCHANGED caller
    /\ UNCHANGED <<args, fs, inv>>

AfterBench == IF caller = "main" THEN "main_collect" ELSE "cm_manifest"

\* The benchmark binary writes results.json only when told to write there.
BenchReturns ==
    /\ pc = "bench_wait"
    /\ \E ch \in children, rc \in ExitCodes, wrote \in BOOLEAN :
         /\ wrote => Has(ch.cmd, "--benchmark_out=" \o ResultsPath)
         /\ Returns(ch, rc, AfterBench)
         /\ fs' = IF wrote THEN [fs EXCEPT !.results = "fresh"] ELSE fs
    /\ UNCHANGED <<args, caller, inv>>

(***************************************************************************)
(* main(), lines 182-186, and collect_metrics().                           *)
(***************************************************************************)
\* open(sizeof_path, "w"), line 119: creates the file or truncates it.
OpenForAppend(f) == IF f = "absent" THEN "empty" ELSE f
OpenForWrite(f) == "empty"

MainEnd ==
    /\ pc' = "done"
    /\ exitCode' = 0
    /\ UNCHANGED <<children, log>>

MainCollect ==
    /\ pc = "main_collect"
    /\ IF args.collect_metrics
         THEN IF MissingBenchmarks(args)
                THEN UsageError("--collect-metrics") /\ UNCHANGED <<children, fs>>
                ELSE /\ fs' = [fs EXCEPT !.sizeof = OpenForWrite(@)]
                     /\ children' = children \cup {Launched(RunSizeCmd, SizeofPath)}
                     /\ log' = log \o <<Ev("open_w", <<SizeofPath>>, "", Running),
                                        Launched(RunSizeCmd, SizeofPath)>>
                     /\ pc' = "cm_probe_wait"
                     /\ exitCode' = exitCode
         ELSE MainEnd /\ UNCHANGED fs
    /\ UNCHANGED <<args, caller, inv>>

\* Lines 120-122: collect_metrics() waits for the probe itself and exits
\* with its code; the with-block then closes sizeof_report.txt.
AfterProbeSkipsSizeReport == "cm_bench"
AfterProbe == "cm_size_report"

ProbeReturns ==
    /\ pc = "cm_probe_wait"
    /\ \E ch \in children, rc \in ExitCodes, printed \in BOOLEAN :
         /\ children' = children \ {ch}
         /\ fs' = IF printed THEN [fs EXCEPT !.sizeof = "fresh"] ELSE fs
         /\ IF rc # 0
              THEN SysExit(rc, <<Exited(ch, rc)>>)
              ELSE /\ pc' = AfterProbe
                   /\ log' = log \o <<Exited(ch, rc)>>
                   /\ exitCode' = exitCode
    /\ UNCHANGED <<args, caller, inv>>

CollectSizeReport ==
    /\ pc = "cm_size_report"
    /\ Run(SizeReportCmd, "inherit", "size_report_wait")
    /\ caller' = "collect_metrics"
    /\ UNCHANGED <<args, fs, inv>>

\* Line 186: main() hands its --bench-time and --bench-reps to
\* collect_metrics(), whose own defaults (line 111) are therefore unused.
CollectArgsOwnDefaults(a) == <<"0.2s", 1>>
CollectArgs(a) == <<a.bench_time, a.bench_reps>>

CollectBench ==
    /\ pc = "cm_bench"
    /\ run_bench(CollectArgs(args)[1], CollectArgs(args)[2], ResultsPath)
    /\ UNCHANGED <<args, caller, fs, inv>>

CollectManifest ==
    /\ pc = "cm_manifest"
    /\ pc' = "done"
    /\ exitCode' = 0
    /\ log' = log \o <<Printed(Manifest)>>
    /\ UNCHANGED <<args, caller, children, fs, inv>>

(***************************************************************************)
(* The process is gone; only the build directory remains for the next      *)
(* invocation, which finds this invocation's files as stale ones.          *)
(***************************************************************************)
ProcessExit ==
    /\ pc = "done"
    /\ pc' = "idle"
    /\ args' = DefaultArgs
    /\ caller' = "main"
    /\ exitCode' = Running
    /\ children' = {}
    /\ log' = <<>>
    /\ fs' = AgeFS(fs)
    /\ inv' = inv

Next ==
    \/ Invoke
    \/ MainClean
    \/ Configure
    \/ ConfigureReturns
    \/ Build
    \/ BuildReturns
    \/ MainTest
    \/ TestReturns
    \/ MainRunSize
    \/ RunSizeReturns
    \/ MainSizeReport
    \/ SizeReportTargetReturns
    \/ SizeReportRead
    \/ MainRunBench
    \/ BenchReturns
    \/ MainCollect
    \/ ProbeReturns
    \/ CollectSizeReport
    \/ CollectBench
    \/ CollectManifest
    \/ ProcessExit

Spec == Init /\ [][Next]_vars

TypeOK ==
    /\ args \in ParseArgs
    /\ exitCode \in {Running} \cup 0..255
    /\ (pc = "done") = (exitCode # Running)
    /\ caller \in {"main", "collect_metrics"}
    /\ inv \in 0..MaxInvocations

(***************************************************************************)
(* Reading the log.                                                        *)
(***************************************************************************)
Last == log[Len(log)]
Ended == pc = "done"
IsRun(i) == log[i].ev = "run"
IsExit(i) == log[i].ev = "exit"
IsBench(i) == log[i].cmd # <<>> /\ log[i].cmd[1] = BenchExe
IsUsagePrint(e) ==
    /\ e.ev = "print"
    /\ e.cmd \in { <<"error: " \o f \o " requires -b/--benchmarks">> :
                     f \in {"--run-size", "--size-report", "--run-bench", "--collect-metrics"} }
IsMissingReportPrint(e) ==
    e = Printed(<<"error: size report not found at: build/bench/size_report.txt">>)
\* Position of the open of sizeof_report.txt, where collect_metrics() starts; 0 if none.
CollectStart ==
    IF \E i \in DOMAIN log : log[i].ev = "open_w"
      THEN CHOOSE i \in DOMAIN log : log[i].ev = "open_w"
      ELSE 0
InCollect(i) == CollectStart # 0 /\ i >= CollectStart
NoChildFailed == \A i \in DOMAIN log : IsExit(i) => log[i].rc = 0
\* A launch that belongs to one of the four flags that require --benchmarks.
IsDependentAction(i) ==
    \/ log[i].ev = "open_w"
    \/ IsRun(i) /\ log[i].cmd \in {RunSizeCmd, SizeReportCmd}
    \/ IsRun(i) /\ IsBench(i)
DepViolation(a) ==
    ~a.benchmarks /\ (a.run_size \/ a.size_report \/ a.run_bench \/ a.collect_metrics)

(***************************************************************************)
(* C1 as stated: whenever one of --run-size, --size-report, --run-bench,   *)
(* --collect-metrics is given without --benchmarks, the invocation ends    *)
(* with exit code 2 and launches no action of a dependent flag.            *)
(***************************************************************************)
C1_AsStated ==
    (Ended /\ DepViolation(args)) =>
        /\ exitCode = 2
        /\ \A i \in DOMAIN log : ~IsDependentAction(i)

(***************************************************************************)
(* C1 amended: with a dependent flag given without --benchmarks no action  *)
(* of any dependent flag is ever launched; the invocation ends with exit   *)
(* code 2 and the usage diagnostic when configure, build-all and the       *)
(* requested test run all exit zero, and with the failing child's code     *)
(* otherwise.                                                              *)
(***************************************************************************)
C1_UsageError ==
    DepViolation(args) =>
        /\ \A i \in DOMAIN log : ~IsDependentAction(i)
        /\ Ended =>
             IF NoChildFailed
               THEN exitCode = 2 /\ IsUsagePrint(Last)
               ELSE IsExit(Len(log)) /\ exitCode = Last.rc /\ Last.rc # 0

C1_Witness ==
    /\ Ended /\ DepViolation(args) /\ args.size_report /\ ~args.run_size
    /\ args.test
    /\ exitCode = 2
    /\ Last = Printed(<<"error: --size-report requires -b/--benchmarks">>)

(***************************************************************************)
(* C2: a child that exits non-zero ends the invocation at once: the exit   *)
(* record of the first failing child is the last thing the invocation      *)
(* does, the invocation's exit code is that child's code, and no child is  *)
(* left running.  This covers the probe run of collect_metrics() and the   *)
(* benchmark run whose stdout goes to the null device.                     *)
(***************************************************************************)
C2_FirstFailureEnds ==
    \A i \in DOMAIN log :
        (IsExit(i) /\ log[i].rc # 0) =>
            /\ i = Len(log)
            /\ Ended
            /\ exitCode = log[i].rc
            /\ children = {}

C2_Witness ==
    /\ Ended /\ exitCode = 2 /\ log # <<>>
    /\ Last = Exited(Launched(RunSizeCmd, SizeofPath), 2)
    /\ args.run_bench /\ args.bench_out = "out.json"
    /\ \E i \in DOMAIN log : IsExit(i) /\ log[i].out = "devnull" /\ log[i].rc = 0

(***************************************************************************)
(* C3 as stated: --bench-out with a path but without --run-bench is a      *)
(* usage failure: the invocation ends with exit code 2 and a diagnostic    *)
(* (no child failed and no other dependency is violated).                  *)
(***************************************************************************)
C3_BenchOutRequiresRunBench ==
    (/\ Ended
     /\ args.bench_out # "" /\ ~args.run_bench
     /\ NoChildFailed
     /\ ~DepViolation(args)
     /\ ~(args.size_report \/ args.collect_metrics)) =>
        exitCode = 2 /\ Last.ev = "print"

(***************************************************************************)
(* C4: the steps of one invocation happen in the order clean, configure,   *)
(* build-all, test, run-size, size-report, run-bench, collect-metrics;     *)
(* each happens at most once and an optional one only when its flag is     *)
(* set; an invocation that ends with exit code 0 has done every requested  *)
(* step; and when main() reaches the dependency check of a step, every     *)
(* earlier step is complete and nothing of that step or a later one has    *)
(* happened.                                                               *)
(***************************************************************************)
StepAt(i, cs, configureCmd) ==
    IF cs # 0 /\ i >= cs THEN 8
    ELSE IF log[i].ev = "rmtree" THEN 1
    ELSE IF log[i].cmd = configureCmd THEN 2
    ELSE IF log[i].cmd = BuildCmd THEN 3
    ELSE IF log[i].cmd = TestCmd THEN 4
    ELSE IF log[i].cmd = RunSizeCmd \/ log[i].cmd = <<"error: --run-size requires -b/--benchmarks">> THEN 5
    ELSE IF log[i].cmd = <<"error: --run-bench requires -b/--benchmarks">> \/ IsBench(i) THEN 7
    ELSE IF log[i].cmd = <<"error: --collect-metrics requires -b/--benchmarks">> THEN 8
    ELSE 6

\* The step each log entry belongs to.
Steps ==
    LET cs == CollectStart
        configureCmd == ConfigureCmd(args.examples, args.benchmarks)
    IN  [i \in DOMAIN log |-> StepAt(i, cs, configureCmd)]

StepRequested(n) ==
    CASE n = 1 -> args.clean
      [] n = 2 -> TRUE
      [] n = 3 -> TRUE
      [] n = 4 -> args.test
      [] n = 5 -> args.run_size
      [] n = 6 -> args.size_report
      [] n = 7 -> args.run_bench
      [] n = 8 -> args.collect_metrics

\* The step main() is about to decide on at each of its positions.
CheckPoint ==
    [main_clean |-> 1, configure |-> 2, main_test |-> 4, main_run_size |-> 5,
     main_size_report |-> 6, main_run_bench |-> 7, main_collect |-> 8]

C4_FixedOrder ==
    LET st == Steps IN
    /\ \A i \in 1..(Len(log) - 1) :
           /\ st[i] <= st[i + 1]
           /\ (IsRun(i) /\ st[i] < 8) => \A j \in (i + 1)..Len(log) : IsRun(j) => st[j] > st[i]
    /\ \A e \in {"rmtree", "open_w"} : Cardinality({ i \in DOMAIN log : log[i].ev = e }) <= 1
    /\ \A i \in DOMAIN log : StepRequested(st[i])
    /\ (Ended /\ exitCode = 0) =>
           \A n \in 2..8 : StepRequested(n) => \E i \in DOMAIN log : IsRun(i) /\ st[i] = n
    /\ pc \in DOMAIN CheckPoint =>
           /\ children = {}
           /\ \A i \in DOMAIN log : st[i] < CheckPoint[pc]
           /\ \A i \in DOMAIN log : IsRun(i) => i < Len(log) /\ log[i + 1] = Exited(log[i], 0)

C4_Witness ==
    /\ Ended /\ exitCode = 0
    /\ \A n \in 1..8 : StepRequested(n) /\ \E i \in DOMAIN log : Steps[i] = n

(***************************************************************************)
(* C5: with --clean an existing build directory is removed whole before    *)
(* configure touches it, so nothing left by an earlier invocation is seen  *)
(* by any step; with --clean and no build directory nothing is removed and *)
(* the run goes on; without --clean the directory is never removed.        *)
(***************************************************************************)
StaleFiles(d) == { f \in {"sizeof", "report", "map", "results"} : d[f] = "stale" }
Removed == \E i \in DOMAIN log : log[i].ev = "rmtree"

C5_CleanRemovesBuildDir ==
    /\ (args.clean /\ pc \notin {"idle", "main_clean"}) => StaleFiles(fs) = {}
    /\ (args.clean /\ pc = "configure") => fs = EmptyFS /\ exitCode = Running
    /\ (args.clean /\ pc = "configure_wait") => fs.cfg = NoCfg
    /\ (args.clean /\ pc = "configure" /\ inv = 1) => ~Removed
    /\ (~args.clean /\ pc # "idle") => ~Removed /\ (inv > 1 => fs.dir)
    /\ Removed => log[1].ev = "rmtree"

C5_Witness ==
    /\ args.clean /\ pc = "configure" /\ Removed /\ ~fs.dir

(***************************************************************************)
(* C6: when the size-report target has exited zero, size_report() looks    *)
(* for size_report.txt: if it is absent the invocation prints the          *)
(* missing-report diagnostic and ends with exit code 1, and nothing else   *)
(* happens; if it is present its contents are printed and the caller       *)
(* (main() or collect_metrics()) goes on with its next step.               *)
(***************************************************************************)
C6_MissingReport ==
    \A i \in DOMAIN log :
        (IsExit(i) /\ log[i].cmd = SizeReportCmd /\ log[i].rc = 0) =>
            IF i = Len(log) THEN pc = "size_report_read" /\ exitCode = Running
            ELSE IF fs.report = "absent"
              THEN /\ Len(log) = i + 1
                   /\ IsMissingReportPrint(log[i + 1])
                   /\ Ended /\ exitCode = 1
              ELSE /\ Len(log) >= i + 3
                   /\ log[i + 1] = Printed(<<"--- size_report.txt ---">>)
                   /\ log[i + 2].ev = "read" /\ log[i + 2].cmd = <<"build/bench/size_report.txt">>
                   /\ log[i + 3].ev = "print" /\ log[i + 3].cmd[1] = "build/bench/size_report.txt"
                   /\ Len(log) = i + 3 =>
                        IF InCollect(i)
                          THEN pc = "cm_bench" /\ exitCode = Running
                          ELSE \/ pc \in {"main_run_bench", "main_collect"} /\ exitCode = Running
                               \/ Ended /\ exitCode = 0

C6_Witness ==
    /\ Ended /\ exitCode = 1 /\ IsMissingReportPrint(Last)
    /\ CollectStart # 0
    /\ fs.report = "absent"

(***************************************************************************)
(* C7 as stated: a run with --clean --test --benchmarks --collect-metrics  *)
(* in which every child exits zero ends with exit code 0, with             *)
(* sizeof_report.txt, size_report.txt, ms_ringbuffer_size.map and          *)
(* results.json present in the build directory and the four paths printed  *)
(* in the final manifest.                                                  *)
(***************************************************************************)
FullPipeline(a) == a.clean /\ a.test /\ a.benchmarks /\ a.collect_metrics
FourPaths ==
    <<"build/bench/sizeof_report.txt", "build/bench/size_report.txt",
      "build/bench/ms_ringbuffer_size.map", "build/bench/results.json">>
ManifestPrinted == Last.ev = "print" /\ Last.cmd = <<"Wrote:">> \o FourPaths

C7_AsStated ==
    (Ended /\ FullPipeline(args) /\ NoChildFailed) =>
        /\ exitCode = 0
        /\ ManifestPrinted
        /\ \A f \in {"sizeof", "report", "map", "results"} : fs[f] # "absent"

(***************************************************************************)
(* C7 amended: such a run ends with exit code 0 and the four paths in the  *)
(* final manifest exactly when size_report.txt exists after the            *)
(* size-report target (otherwise it ends with exit code 1 and no           *)
(* manifest); on exit code 0 sizeof_report.txt and size_report.txt are     *)
(* present, while ms_ringbuffer_size.map and results.json are listed       *)
(* without being checked and are present only if the children wrote them.  *)
(***************************************************************************)
C7_FullPipeline ==
    (Ended /\ FullPipeline(args) /\ NoChildFailed) =>
        IF fs.report = "absent"
          THEN exitCode = 1 /\ IsMissingReportPrint(Last)
          ELSE /\ exitCode = 0
               /\ ManifestPrinted
               /\ fs.sizeof \in {"fresh", "empty"} /\ fs.report = "fresh"
               /\ fs.map \in {"absent", "fresh"} /\ fs.results \in {"absent", "fresh"}

C7_Witness ==
    /\ Ended /\ FullPipeline(args) /\ NoChildFailed /\ exitCode = 0 /\ ManifestPrinted
    /\ Removed
    /\ fs.map = "absent" /\ fs.results = "absent"

(***************************************************************************)
(* C8: from the moment collect_metrics() opens sizeof_report.txt the       *)
(* invocation does, in this order and nothing else: the probe run with     *)
(* stdout into sizeof_report.txt, the size-report target and the printing  *)
(* of size_report.txt, the benchmark run with JSON output to               *)
(* build/bench/results.json, and the manifest; it stops at the first of    *)
(* these that fails, so the manifest is printed only after all three       *)
(* sub-steps have succeeded.                                               *)
(***************************************************************************)
CollectPlan ==
    << Ev("open_w", <<"build/bench/sizeof_report.txt">>, "", Running),
       Ev("run", <<"build/bench/ms_ringbuffer_size">>, "build/bench/sizeof_report.txt", Running),
       Ev("exit", <<"build/bench/ms_ringbuffer_size">>, "build/bench/sizeof_report.txt", 0),
       Ev("run", SizeReportCmd, "inherit", Running),
       Ev("exit", SizeReportCmd, "inherit", 0),
       Ev("print", <<"--- size_report.txt ---">>, "terminal", Running),
       Ev("read", <<"build/bench/size_report.txt">>, fs.report, Running),
       Ev("print", <<"build/bench/size_report.txt", fs.report>>, "terminal", Running),
       Ev("run", <<"build/bench/ms_ringbuffer_bench",
                   "--benchmark_min_time=" \o args.bench_time,
                   "--benchmark_repetitions=" \o ToString(args.bench_reps),
                   "--benchmark_format=json",
                   "--benchmark_out=build/bench/results.json",
                   "--benchmark_out_format=json">>, "devnull", Running),
       Ev("exit", <<"build/bench/ms_ringbuffer_bench",
                    "--benchmark_min_time=" \o args.bench_time,
                    "--benchmark_repetitions=" \o ToString(args.bench_reps),
                    "--benchmark_format=json",
                    "--benchmark_out=build/bench/results.json",
                    "--benchmark_out_format=json">>, "devnull", 0),
       Ev("print", <<"Wrote:">> \o FourPaths, "terminal", Running) >>

\* e is the failure that can take the place of the planned entry p.
FailureOf(e, p) ==
    \/ /\ p.ev = "exit" /\ e.ev = "exit" /\ e.cmd = p.cmd /\ e.out = p.out
       /\ e.rc # 0 /\ exitCode = e.rc
    \/ /\ p.ev = "print" /\ p.cmd = <<"--- size_report.txt ---">>
       /\ IsMissingReportPrint(e) /\ exitCode = 1

C8_CollectOrder ==
    CollectStart # 0 =>
        LET tail == SubSeq(log, CollectStart, Len(log)) IN
        /\ Len(tail) <= Len(CollectPlan)
        /\ \A j \in DOMAIN tail :
               \/ tail[j] = CollectPlan[j]
               \/ j = Len(tail) /\ Ended /\ FailureOf(tail[j], CollectPlan[j])
        /\ (Ended /\ exitCode = 0) => tail = CollectPlan

C8_Witness ==
    /\ CollectStart # 0 /\ Ended /\ exitCode = 0
    /\ ManifestPrinted
    /\ args.run_bench /\ args.size_report /\ args.run_size

(***************************************************************************)
(* C9: the benchmark run of the --run-bench step.  With a non-empty        *)
(* --bench-out the child gets the three JSON arguments with that path and  *)
(* its stdout goes to the null device; with --bench-out omitted or empty   *)
(* it gets no output argument, its stdout is the terminal, and it writes   *)
(* no results file.  Either way a non-zero exit of the child ends the      *)
(* invocation with that code.                                              *)
(***************************************************************************)
C9_BenchOut ==
    \A i \in DOMAIN log :
        (IsRun(i) /\ IsBench(i) /\ ~InCollect(i)) =>
            /\ args.run_bench /\ args.benchmarks
            /\ SubSeq(log[i].cmd, 1, 3) =
                   <<"build/bench/ms_ringbuffer_bench",
                     "--benchmark_min_time=" \o args.bench_time,
                     "--benchmark_repetitions=" \o ToString(args.bench_reps)>>
            /\ IF args.bench_out # ""
                 THEN /\ log[i].out = "devnull"
                      /\ SubSeq(log[i].cmd, 4, Len(log[i].cmd)) =
                             <<"--benchmark_format=json",
                               "--benchmark_out=" \o args.bench_out,
                               "--benchmark_out_format=json">>
                 ELSE /\ log[i].out = "inherit"
                      /\ Len(log[i].cmd) = 3
                      /\ CollectStart = 0 => fs.results # "fresh"
            /\ i < Len(log) =>
                   /\ IsExit(i + 1) /\ log[i + 1].cmd = log[i].cmd /\ log[i + 1].out = log[i].out
                   /\ log[i + 1].rc # 0 => Ended /\ exitCode = log[i + 1].rc /\ Len(log) = i + 1

C9_Witness ==
    /\ Ended /\ exitCode = 2 /\ CollectStart = 0
    /\ args.bench_out = "out.json"
    /\ log # <<>> /\ IsExit(Len(log)) /\ IsBench(Len(log)) /\ Last.out = "devnull" /\ Last.rc = 2

(***************************************************************************)
(* C10 as stated: the exit code tells the error kinds apart: an            *)
(* invocation ends with exit code 2 only after a flag-dependency           *)
(* diagnostic and with exit code 1 only after the missing-report           *)
(* diagnostic, never because a child exited with that code.                *)
(***************************************************************************)
C10_ReservedExitCodes ==
    Ended =>
        /\ exitCode = 2 => IsUsagePrint(Last)
        /\ exitCode = 1 => IsMissingReportPrint(Last)

(***************************************************************************)
(* C11 as stated: an invocation whose collect_metrics() completes (exit    *)
(* code 0) leaves sizeof_report.txt, size_report.txt and results.json all  *)
(* written by that invocation; none of them is a file left by an earlier   *)
(* invocation.                                                             *)
(***************************************************************************)
ReportFiles == {"sizeof", "report", "results"}

C11_ArtifactsAreFresh ==
    (Ended /\ exitCode = 0 /\ CollectStart # 0) =>
        \A f \in ReportFiles : fs[f] # "stale"

(***************************************************************************)
(* C12 as stated: an invocation ends with exit code 0 after                *)
(* collect_metrics() only if none of sizeof_report.txt, size_report.txt    *)
(* and results.json is an empty file.                                      *)
(***************************************************************************)
C12_EmptyArtifactRejected ==
    (Ended /\ exitCode = 0 /\ CollectStart # 0) =>
        \A f \in ReportFiles : fs[f] # "empty"

(***************************************************************************)
(* C13: at most one child process is running at any time, and whenever     *)
(* something is done after a launch, the first thing is the exit of the    *)
(* launched child: a running child is always the last entry of the log.    *)
(***************************************************************************)
C13_OneChildAtATime ==
    /\ Cardinality(children) <= 1
    /\ \A i \in DOMAIN log :
           IsRun(i) =>
               IF i = Len(log)
                 THEN children = {log[i]}
                 ELSE IsExit(i + 1) /\ log[i + 1].cmd = log[i].cmd /\ log[i + 1].out = log[i].out
    /\ (log = <<>> \/ ~IsRun(Len(log))) => children = {}

C13_Witness ==
    /\ pc = "bench_wait" /\ CollectStart # 0
    /\ Cardinality(children) = 1
    /\ Cardinality({ i \in DOMAIN log : IsExit(i) }) >= 6

(***************************************************************************)
(* C14: every invocation launches the generator exactly once, as its first *)
(* child and before build-all, with both toggles given explicitly, ON      *)
(* exactly for the flags that are set; so once the generator has exited    *)
(* zero the stored toggles are those of the current invocation's flags,    *)
(* whatever an earlier invocation on the same directory had stored.        *)
(***************************************************************************)
IsConfigure(i) == IsRun(i) /\ Len(log[i].cmd) >= 2 /\ log[i].cmd[2] = "-B"
OnOff(b) == IF b THEN "ON" ELSE "OFF"

C14_Reconfigure ==
    LET runs == { i \in DOMAIN log : IsRun(i) }
        cfgs == { i \in DOMAIN log : IsConfigure(i) }
    IN
    /\ Cardinality(cfgs) <= 1
    /\ pc \notin {"idle", "main_clean", "configure"} => Cardinality(cfgs) = 1
    /\ \A i \in cfgs :
           /\ \A j \in runs : i <= j
           /\ log[i].cmd = <<"cmake", "-B", "build", "-DCMAKE_BUILD_TYPE=Release",
                             "-DMS_RINGBUFFER_BUILD_EXAMPLES=" \o OnOff(args.examples),
                             "-DMS_RINGBUFFER_BUILD_BENCHMARKS=" \o OnOff(args.benchmarks)>>
           /\ (i < Len(log) /\ log[i + 1].rc = 0) => fs.cfg = <<args.examples, args.benchmarks>>
    /\ \A j \in runs : log[j].cmd = BuildCmd => \E i \in cfgs : i < j /\ log[i + 1].rc = 0

\* The second invocation turns benchmarks off in a directory that was
\* configured with benchmarks on (a size report is left over) and not cleaned.
C14_Witness ==
    /\ inv = 2 /\ ~args.clean /\ ~args.benchmarks /\ args.examples
    /\ fs.report = "stale"
    /\ pc = "build_wait"
    /\ fs.cfg = <<TRUE, FALSE>>

(***************************************************************************)
(* C15: the benchmark child of the --run-bench step and the one of         *)
(* collect_metrics() both get the minimum time and the repetitions of the  *)
(* command line: 0.05s and 1 when --bench-time and --bench-reps are not    *)
(* given, the given values otherwise.                                      *)
(***************************************************************************)
C15_BenchParams ==
    \A i \in DOMAIN log :
        (IsRun(i) /\ IsBench(i)) =>
            /\ log[i].cmd[2] = "--benchmark_min_time=" \o args.bench_time
            /\ log[i].cmd[3] = "--benchmark_repetitions=" \o ToString(args.bench_reps)
            /\ (args.bench_time = "0.05s" /\ args.bench_reps = 1) =>
                   /\ log[i].cmd[2] = "--benchmark_min_time=0.05s"
                   /\ log[i].cmd[3] = "--benchmark_repetitions=1"

C15_Witness ==
    /\ Ended /\ exitCode = 0 /\ CollectStart # 0
    /\ args.bench_time = "0.05s" /\ args.bench_reps = 1
    /\ \E i, j \in DOMAIN log :
          /\ i < CollectStart /\ CollectStart < j
          /\ IsRun(i) /\ IsBench(i) /\ IsRun(j) /\ IsBench(j)
          /\ log[j].cmd[2] = "--benchmark_min_time=0.05s"

(***************************************************************************)
(* C16: a dependency check is never made before the build.  An invocation  *)
(* that ends with the usage error (the diagnostic and exit code 2) has     *)
(* removed the build directory if --clean found one, has recreated,        *)
(* configured and built it, has run the tests if requested, all with exit  *)
(* code 0, and has completed every requested step that comes before the    *)
(* flag of the diagnostic.                                                 *)
(***************************************************************************)
RanOk(cmd) ==
    \E i \in DOMAIN log : IsRun(i) /\ log[i].cmd = cmd /\ i < Len(log) /\ log[i + 1] = Exited(log[i], 0)

IsProbeToFile(e) == e.cmd = <<"build/bench/ms_ringbuffer_size">> /\ e.out = "build/bench/sizeof_report.txt"

====
